---- MODULE Spec2Model ----
(***************************************************************************)
(* Model of zenoh's KeyExpr (zenoh/src/key_expr/mod.rs): the four-shape    *)
(* key-expression value, its composition operators join and concat, and    *)
(* the session-scoped wire encoding to_wire / is_optimized.                *)
(*                                                                         *)
(* A key-expression text is a sequence of one-character strings.  A        *)
(* KeyExpr value is a record whose tag is the KeyExprInner variant.        *)
(***************************************************************************)
EXTENDS Integers, Sequences, FiniteSets, TLC

VARIABLES self, other, last

vars == <<self, other, last>>

\* ------------------------------------------------------------------ bounds
\* Longest text a composition may produce in the model.
MaxLen == 5
\* expr_id ranges over 0..MaxExprId (0 is the "unassigned" id).
MaxExprId == 2
\* Session identifiers range over 0..MaxSessionId.
MaxSessionId == 1

ExprIds == 0..MaxExprId
SessionIds == 0..MaxSessionId

\* Texts of the documented examples.
Key1X == <<"k", "e", "y", "1", "/", "x">>
FooStars == <<"f", "o", "o", "/", "*", "*">>
StarsBar == <<"*", "*", "/", "b", "a", "r">>
Bar == <<"b", "a", "r">>

\* Texts handed to the constructors.  The unchecked constructors accept any
\* text, so ill-formed ones ("", "a/", "/a") are included.
InitTexts ==
    { <<"a">>, <<"*">>, <<"*", "*">>, <<"a", "/", "a">>, <<"a", "/", "*">>,
      <<"a", "/", "*", "*">>, <<>>, <<"a", "/">>, <<"/", "a">>, Key1X }

\* Strings handed to join and concat.
Args ==
    { <<>>, <<"a">>, <<"*">>, <<"*", "*">>, <<"/">>, <<"*", "/", "a">> }

\* ------------------------------------------------------- KeyExprInner enum
Borrowed(k) == [tag |-> "Borrowed", key_expr |-> k]

BorrowedWire(k, e, p, s) ==
    [tag |-> "BorrowedWire", key_expr |-> k, expr_id |-> e,
     prefix_len |-> p, session_id |-> s]

Owned(k) == [tag |-> "Owned", key_expr |-> k]

Wire(k, e, p, s) ==
    [tag |-> "Wire", key_expr |-> k, expr_id |-> e,
     prefix_len |-> p, session_id |-> s]

\* Whether the value is one of the two annotated variants.
IsWire(ke) == ke.tag \in {"Wire", "BorrowedWire"}

\* The annotation triple of an annotated value.
Annotation(ke) == <<ke.expr_id, ke.prefix_len, ke.session_id>>

\* Result<T, E>
Ok(v) == [ok |-> TRUE, value |-> v]
Err(e) == [ok |-> FALSE, error |-> e]

\* ------------------------------------------------- the external keyexpr type
\* Grammar of a key expression as far as this type relies on it: non-empty,
\* `/`-separated, no empty segment.  The grammar only decides which
\* compositions succeed; a stricter one accepts a subset of these texts.
IsValidKeyExpr(t) ==
    /\ Len(t) > 0
    /\ t[1] # "/"
    /\ t[Len(t)] # "/"
    /\ \A i \in 1..(Len(t) - 1) : ~(t[i] = "/" /\ t[i + 1] = "/")

\* OwnedKeyExpr::try_from(String) / str::parse / <&keyexpr>::try_from(&str)
keyexpr_try_from(t) ==
    IF IsValidKeyExpr(t) THEN Ok(t) ELSE Err("InvalidKeyExpression")

\* Byte value of a character of the alphabet.
Byte(c) ==
    CASE c = "*" -> 42
      [] c = "/" -> 47
      [] c = "a" -> 97
      [] c = "b" -> 98
      [] c = "e" -> 101
      [] c = "f" -> 102
      [] c = "k" -> 107
      [] c = "o" -> 111
      [] c = "r" -> 114
      [] c = "x" -> 120
      [] c = "y" -> 121
      [] c = "1" -> 49

\* <keyexpr as Hash>::hash: the bytes written to the hasher, i.e. the text's
\* bytes followed by the 0xff terminator of str's Hash.
keyexpr_hash(t) == [i \in 1..Len(t) |-> Byte(t[i])] \o <<255>>

\* <keyexpr as Display>::fmt writes the text.
keyexpr_display(t) == t

\* <keyexpr as PartialEq>::eq compares the texts.
keyexpr_eq(t, u) == t = u

\* str::ends_with(char) and str::starts_with(char)
ends_with(t, c) == Len(t) > 0 /\ t[Len(t)] = c
starts_with(t, c) == Len(t) > 0 /\ t[1] = c

\* &str[n..]: the tail from byte n, or a panic when n is out of range.
SlicePanic == [panic |-> "byte index out of range"]
str_from(t, n) == SubSeq(t, n + 1, Len(t))

\* ------------------------------------------------------------------ KeyExpr
\* impl Deref for KeyExpr
deref(ke) == ke.key_expr

as_keyexpr(ke) == deref(ke)

\* impl Display / PartialEq / Hash for KeyExpr
Display(ke) == keyexpr_display(as_keyexpr(ke))

\* Equality derived over the whole variant instead of the text.
EqByInner(a, b) == a = b
Eq(a, b) == keyexpr_eq(as_keyexpr(a), as_keyexpr(b))

Hash(ke) == keyexpr_hash(as_keyexpr(ke))

\* Constructors.
from_str(t) ==
    LET r == keyexpr_try_from(t) IN IF r.ok THEN Ok(Owned(r.value)) ELSE r

try_from_str(t) ==
    LET r == keyexpr_try_from(t) IN IF r.ok THEN Ok(Borrowed(r.value)) ELSE r

from_string_unchecked(t) == Owned(t)

from_str_uncheckend(t) == Borrowed(t)

\* borrowing_clone that forgets the annotation.
borrowing_clone_drop(ke) == Borrowed(ke.key_expr)
borrowing_clone(ke) ==
    CASE ke.tag = "Borrowed" -> Borrowed(ke.key_expr)
      [] ke.tag = "BorrowedWire" ->
            BorrowedWire(ke.key_expr, ke.expr_id, ke.prefix_len, ke.session_id)
      [] ke.tag = "Owned" -> Borrowed(ke.key_expr)
      [] ke.tag = "Wire" ->
            BorrowedWire(ke.key_expr, ke.expr_id, ke.prefix_len, ke.session_id)

into_owned(ke) ==
    CASE ke.tag = "Borrowed" -> Owned(ke.key_expr)
      [] ke.tag = "Owned" -> Owned(ke.key_expr)
      [] ke.tag = "BorrowedWire" ->
            Wire(ke.key_expr, ke.expr_id, ke.prefix_len, ke.session_id)
      [] ke.tag = "Wire" ->
            Wire(ke.key_expr, ke.expr_id, ke.prefix_len, ke.session_id)

\* join with its two sides swapped.
join_prepend(ke, s) ==
    LET r == keyexpr_try_from(s \o <<"/">> \o Display(ke)) IN
    IF ~r.ok THEN r
    ELSE IF ke.tag = "Wire"
         THEN Ok(Wire(r.value, ke.expr_id, ke.prefix_len, ke.session_id))
         ELSE Ok(Owned(r.value))
join(ke, s) ==
    LET r == keyexpr_try_from(Display(ke) \o <<"/">> \o s) IN
    IF ~r.ok THEN r
    ELSE IF ke.tag = "Wire"
         THEN Ok(Wire(r.value, ke.expr_id, ke.prefix_len, ke.session_id))
         ELSE Ok(Owned(r.value))

\* The guard of concat, taken on the two-character token instead.
concat_double_star(ke, s) ==
    IF /\ Len(deref(ke)) >= 2
       /\ SubSeq(deref(ke), Len(deref(ke)) - 1, Len(deref(ke))) = <<"*", "*">>
       /\ Len(s) >= 2
       /\ SubSeq(s, 1, 2) = <<"*", "*">>
    THEN Err("AmbiguousConcatenation")
    ELSE LET r == keyexpr_try_from(Display(ke) \o s) IN
         IF ~r.ok THEN r
         ELSE IF ke.tag \in {"Wire", "BorrowedWire"}
              THEN Ok(Wire(r.value, ke.expr_id, ke.prefix_len, ke.session_id))
              ELSE Ok(Owned(r.value))
concat(ke, s) ==
    IF ends_with(deref(ke), "*") /\ starts_with(s, "*")
    THEN Err("AmbiguousConcatenation")
    ELSE LET r == keyexpr_try_from(Display(ke) \o s) IN
         IF ~r.ok THEN r
         ELSE IF ke.tag \in {"Wire", "BorrowedWire"}
              THEN Ok(Wire(r.value, ke.expr_id, ke.prefix_len, ke.session_id))
              ELSE Ok(Owned(r.value))

is_optimized_any_id(ke, session) ==
    /\ ke.tag \in {"Wire", "BorrowedWire"}
    /\ session = ke.session_id
is_optimized(ke, session) ==
    /\ ke.tag \in {"Wire", "BorrowedWire"}
    /\ ke.expr_id # 0
    /\ session = ke.session_id

is_fully_optimized(ke, session) ==
    /\ ke.tag \in {"Wire", "BorrowedWire"}
    /\ ke.expr_id # 0
    /\ session = ke.session_id

WireExpr(scope, suffix) == [scope |-> scope, suffix |-> suffix]

\* to_wire without the session comparison.
to_wire_any_session(ke, session) ==
    CASE ke.tag \in {"Wire", "BorrowedWire"} ->
            IF ke.prefix_len > Len(ke.key_expr) THEN SlicePanic
            ELSE WireExpr(ke.expr_id, str_from(ke.key_expr, ke.prefix_len))
      [] OTHER -> WireExpr(0, ke.key_expr)
\* to_wire whose BorrowedWire arm slices one character late.
to_wire_late_slice(ke, session) ==
    CASE ke.tag = "Wire" /\ session = ke.session_id ->
            IF ke.prefix_len > Len(ke.key_expr) THEN SlicePanic
            ELSE WireExpr(ke.expr_id, str_from(ke.key_expr, ke.prefix_len))
      [] ke.tag = "BorrowedWire" /\ session = ke.session_id ->
            IF ke.prefix_len + 1 > Len(ke.key_expr) THEN SlicePanic
            ELSE WireExpr(ke.expr_id, str_from(ke.key_expr, ke.prefix_len + 1))
      [] OTHER -> WireExpr(0, ke.key_expr)
to_wire(ke, session) ==
    CASE ke.tag = "Wire" /\ session = ke.session_id ->
            IF ke.prefix_len > Len(ke.key_expr) THEN SlicePanic
            ELSE WireExpr(ke.expr_id, str_from(ke.key_expr, ke.prefix_len))
      [] ke.tag = "BorrowedWire" /\ session = ke.session_id ->
            IF ke.prefix_len > Len(ke.key_expr) THEN SlicePanic
            ELSE WireExpr(ke.expr_id, str_from(ke.key_expr, ke.prefix_len))
      [] OTHER -> WireExpr(0, ke.key_expr)

\* ------------------------------------------------------------ initial values
\* Values the constructors produce.
Constructed ==
    {from_str(t).value : t \in {u \in InitTexts : from_str(u).ok}}
      \cup {try_from_str(t).value : t \in {u \in InitTexts : try_from_str(u).ok}}
      \cup {from_string_unchecked(t) : t \in InitTexts}
      \cup {from_str_uncheckend(t) : t \in InitTexts}

\* Values a session's declaration has annotated: the id it assigned, the
\* length of the declared prefix (at most the text's length) and its own id.
Declared ==
    UNION { { Wire(k.key_expr, e, p, s) : e \in ExprIds, s \in SessionIds,
                                           p \in 0..Len(k.key_expr) }
              \cup
            { BorrowedWire(k.key_expr, e, p, s) : e \in ExprIds, s \in SessionIds,
                                                   p \in 0..Len(k.key_expr) }
            : k \in Constructed }

InitKeyExprs == Constructed \cup Declared

Init ==
    /\ self \in InitKeyExprs
    /\ other = self
    /\ last = [op |-> "new"]

\* ------------------------------------------------------------------ actions
BorrowingClone ==
    /\ self' = borrowing_clone(self)
    /\ last' = [op |-> "borrowing_clone", self |-> self, res |-> borrowing_clone(self)]
    /\ UNCHANGED other

IntoOwned ==
    /\ self' = into_owned(self)
    /\ last' = [op |-> "into_owned", self |-> self, res |-> into_owned(self)]
    /\ UNCHANGED other

Join ==
    \E s \in Args :
        /\ Len(deref(self)) + 1 + Len(s) <= MaxLen
        /\ LET r == join(self, s) IN
            /\ last' = [op |-> "join", self |-> self, arg |-> s, res |-> r]
            /\ self' = IF r.ok THEN r.value ELSE self
        /\ UNCHANGED other

Concat ==
    \E s \in Args :
        /\ Len(deref(self)) + Len(s) <= MaxLen
        /\ LET r == concat(self, s) IN
            /\ last' = [op |-> "concat", self |-> self, arg |-> s, res |-> r]
            /\ self' = IF r.ok THEN r.value ELSE self
        /\ UNCHANGED other

ToWire ==
    \E session \in SessionIds :
        /\ last' = [op |-> "to_wire", self |-> self, session |-> session,
                    res |-> to_wire(self, session)]
        /\ UNCHANGED <<self, other>>

IsOptimized ==
    \E session \in SessionIds :
        /\ last' = [op |-> "is_optimized", self |-> self, session |-> session,
                    res |-> is_optimized(self, session)]
        /\ UNCHANGED <<self, other>>

IsFullyOptimized ==
    \E session \in SessionIds :
        /\ last' = [op |-> "is_fully_optimized", self |-> self, session |-> session,
                    res |-> is_fully_optimized(self, session)]
        /\ UNCHANGED <<self, other>>

EqOp ==
    /\ last' = [op |-> "eq", self |-> self, arg |-> other, res |-> Eq(self, other)]
    /\ UNCHANGED <<self, other>>

HashOp ==
    /\ last' = [op |-> "hash", self |-> self, arg |-> other,
                res |-> <<Hash(self), Hash(other)>>]
    /\ UNCHANGED <<self, other>>

DisplayOp ==
    /\ last' = [op |-> "display", self |-> self, arg |-> other,
                res |-> <<Display(self), Display(other)>>]
    /\ UNCHANGED <<self, other>>

Next ==
    \/ BorrowingClone
    \/ IntoOwned
    \/ Join
    \/ Concat
    \/ ToWire
    \/ IsOptimized
    \/ IsFullyOptimized

Spec == Init /\ [][Next]_vars

\* Two independently built values, compared.
InitEq ==
    /\ self \in InitKeyExprs
    /\ other \in InitKeyExprs
    /\ last = [op |-> "new"]

NextEq ==
    \/ EqOp
    \/ HashOp
    \/ DisplayOp

SpecEq == InitEq /\ [][NextEq]_vars

\* ------------------------------------------------------------------ claims
Ambiguous == Err("AmbiguousConcatenation")

\* Whether text t ends (starts) with the two-character token "**".
EndsWithDoubleStar(t) ==
    Len(t) >= 2 /\ SubSeq(t, Len(t) - 1, Len(t)) = <<"*", "*">>
StartsWithDoubleStar(t) == Len(t) >= 2 /\ SubSeq(t, 1, 2) = <<"*", "*">>

\* C1: for a value with no annotation, or whose annotation's session_id
\* differs from the session encoded for, to_wire returns scope 0 and the
\* full text as suffix.
C1_ForeignSessionGetsFullText ==
    (/\ last.op = "to_wire"
     /\ (~IsWire(last.self) \/ last.self.session_id # last.session))
        => last.res = WireExpr(0, last.self.key_expr)

\* An annotation registered with one session, on a value grown by a
\* composition, has been encoded for another session.
C1_Witness ==
    /\ last.op = "to_wire"
    /\ IsWire(last.self)
    /\ last.self.session_id # last.session
    /\ last.self.expr_id # 0
    /\ last.self.prefix_len > 0
    /\ Len(last.self.key_expr) > Len(other.key_expr)

\* C2 as stated: for an annotated value and the session of its annotation,
\* to_wire returns scope = expr_id and suffix = text[prefix_len..], so that
\* the registered prefix followed by the suffix is the full text; an
\* annotation with prefix_len 4 over "key1/x" gives the suffix "1/x".
C2_OwnSessionSuffixExample1X ==
    (/\ last.op = "to_wire"
     /\ IsWire(last.self)
     /\ last.self.session_id = last.session)
        => /\ last.res # SlicePanic
           /\ last.res.scope = last.self.expr_id
           /\ Len(last.res.suffix)
                 = Len(last.self.key_expr) - last.self.prefix_len
           /\ SubSeq(last.self.key_expr, 1, last.self.prefix_len)
                 \o last.res.suffix = last.self.key_expr
           /\ (last.self.key_expr = Key1X /\ last.self.prefix_len = 4)
                 => last.res.suffix = <<"1", "/", "x">>

\* C2 amended: as above, except that prefix_len 4 over "key1/x" gives the
\* suffix "/x" (annotation {7, 4, S} gives (7, "/x")); "1/x" is the suffix
\* for prefix_len 3.
C2_OwnSessionGetsScopeAndSuffix ==
    /\ (/\ last.op = "to_wire"
        /\ IsWire(last.self)
        /\ last.self.session_id = last.session)
           => /\ last.res # SlicePanic
              /\ last.res.scope = last.self.expr_id
              /\ Len(last.res.suffix)
                    = Len(last.self.key_expr) - last.self.prefix_len
              /\ SubSeq(last.self.key_expr, 1, last.self.prefix_len)
                    \o last.res.suffix = last.self.key_expr
              /\ (last.self.key_expr = Key1X /\ last.self.prefix_len = 4)
                    => last.res.suffix = <<"/", "x">>
              /\ (last.self.key_expr = Key1X /\ last.self.prefix_len = 3)
                    => last.res.suffix = <<"1", "/", "x">>
    /\ to_wire(Wire(Key1X, 7, 4, 0), 0) = WireExpr(7, <<"/", "x">>)
    /\ to_wire(BorrowedWire(Key1X, 7, 4, 0), 0) = WireExpr(7, <<"/", "x">>)

\* The borrowed annotated value "key1/x" with prefix_len 4 has been encoded
\* for its own session.
C2_Witness ==
    /\ last.op = "to_wire"
    /\ last.self.tag = "BorrowedWire"
    /\ last.self.session_id = last.session
    /\ last.self.expr_id # 0
    /\ last.self.key_expr = Key1X
    /\ last.self.prefix_len = 4

\* C3: every wire form to_wire produces satisfies: scope = 0 implies the
\* suffix is the complete text, also for an annotation with expr_id = 0,
\* prefix_len > 0 and the session's own id.
C3_ScopeZeroMeansFullText ==
    (last.op = "to_wire" /\ last.res # SlicePanic /\ last.res.scope = 0)
        => last.res.suffix = last.self.key_expr

\* C4: is_optimized is true iff the value is annotated, expr_id # 0 and
\* session_id is the session's id, and is_fully_optimized returns the same.
C4_IsOptimizedIff ==
    /\ last.op = "is_optimized"
        => (last.res <=> (/\ IsWire(last.self)
                          /\ last.self.expr_id # 0
                          /\ last.self.session_id = last.session))
    /\ last.op = "is_fully_optimized"
        => /\ last.res <=> (/\ IsWire(last.self)
                            /\ last.self.expr_id # 0
                            /\ last.self.session_id = last.session)
           /\ last.res = is_optimized(last.self, last.session)

\* is_optimized has answered false for expr_id 0 with the matching session.
C4_Witness ==
    /\ last.op = "is_optimized"
    /\ IsWire(last.self)
    /\ last.self.expr_id = 0
    /\ last.self.session_id = last.session
    /\ last.res = FALSE

\* C5: a successful join yields the text self + "/" + s, carries the same
\* annotation triple when self was annotated (Wire or BorrowedWire) and is
\* plain when self was plain.
C5_JoinKeepsAnnotation ==
    (last.op = "join" /\ last.res.ok)
        => /\ last.res.value.key_expr = last.self.key_expr \o <<"/">> \o last.arg
           /\ IsWire(last.self)
                => /\ IsWire(last.res.value)
                   /\ Annotation(last.res.value) = Annotation(last.self)
           /\ ~IsWire(last.self) => ~IsWire(last.res.value)

\* C6: a successful concat yields the text self + s, propagates the
\* annotation (same triple when self was annotated, none when plain), and
\* agrees with every successful join of the same self on whether and which
\* annotation the result carries.
C6_ConcatPropagatesLikeJoin ==
    (last.op = "concat" /\ last.res.ok)
        => /\ last.res.value.key_expr = last.self.key_expr \o last.arg
           /\ IsWire(last.self)
                => /\ IsWire(last.res.value)
                   /\ Annotation(last.res.value) = Annotation(last.self)
           /\ ~IsWire(last.self) => ~IsWire(last.res.value)
           /\ \A s \in Args :
                join(last.self, s).ok
                    => /\ IsWire(join(last.self, s).value) = IsWire(last.res.value)
                       /\ IsWire(last.res.value)
                            => Annotation(join(last.self, s).value)
                                  = Annotation(last.res.value)

\* C7 as stated: the guard of concat fires iff self ends with "**" and s
\* starts with "**", and join never fires it.
C7_GuardIffDoubleStars ==
    /\ last.op = "concat"
        => (last.res = Ambiguous
              <=> (/\ EndsWithDoubleStar(last.self.key_expr)
                   /\ StartsWithDoubleStar(last.arg)))
    /\ last.op = "join" => last.res # Ambiguous

\* C7 amended: the guard of concat fires iff self ends with the character
\* '*' and s starts with the character '*'; join never fires it;
\* concat("foo/**", "**/bar") fails and concat("foo/**", "bar") passes it.
C7_GuardIffStars ==
    /\ last.op = "concat"
        => (last.res = Ambiguous
              <=> (/\ Len(last.self.key_expr) > 0
                   /\ last.self.key_expr[Len(last.self.key_expr)] = "*"
                   /\ Len(last.arg) > 0
                   /\ last.arg[1] = "*"))
    /\ last.op = "join" => last.res # Ambiguous
    /\ concat(Owned(FooStars), StarsBar) = Ambiguous
    /\ concat(Owned(FooStars), Bar) # Ambiguous

\* concat has refused two adjacent single-segment wildcards.
C7_Witness ==
    /\ last.op = "concat"
    /\ last.res = Ambiguous
    /\ ~EndsWithDoubleStar(last.self.key_expr)
    /\ ~StartsWithDoubleStar(last.arg)

\* C8: borrowing_clone yields Borrowed for a plain value and BorrowedWire
\* for an annotated one, into_owned yields Owned and Wire, both keep the
\* text and the annotation triple, and the result is equal to the value it
\* was made from with the same to_wire and is_optimized for every session.
C8_OwnershipOnly ==
    /\ last.op = "borrowing_clone"
        => last.res.tag = (IF IsWire(last.self) THEN "BorrowedWire" ELSE "Borrowed")
    /\ last.op = "into_owned"
        => last.res.tag = (IF IsWire(last.self) THEN "Wire" ELSE "Owned")
    /\ last.op \in {"borrowing_clone", "into_owned"}
        => /\ last.res.key_expr = last.self.key_expr
           /\ IsWire(last.self) => Annotation(last.res) = Annotation(last.self)
           /\ Eq(last.res, last.self)
           /\ \A session \in SessionIds :
                /\ to_wire(last.res, session) = to_wire(last.self, session)
                /\ is_optimized(last.res, session) = is_optimized(last.self, session)

\* An owned annotated value has been borrowed.
C8_Witness ==
    /\ last.op = "borrowing_clone"
    /\ last.self.tag = "Wire"
    /\ last.self.expr_id # 0
    /\ last.self.prefix_len > 0

\* C9: two values compare equal iff their texts are identical, and values
\* with identical text hash identically and display identically, whatever
\* their shapes, annotations or constructors.
C9_TextOnly ==
    /\ last.op = "eq"
        => (last.res <=> last.self.key_expr = last.arg.key_expr)
    /\ (last.op \in {"hash", "display"} /\ last.self.key_expr = last.arg.key_expr)
        => last.res[1] = last.res[2]

\* An owned annotated value has been found equal to a borrowed plain one.
C9_Witness ==
    /\ last.op = "eq"
    /\ last.res = TRUE
    /\ last.self.tag = "Wire"
    /\ last.self.expr_id # 0
    /\ last.arg.tag = "Borrowed"

\* C10: a value derived from an annotated original that still carries an
\* annotation has prefix_len <= length(text) and the original's leading
\* prefix_len characters, and to_wire and is_optimized return a result on
\* it (no out-of-range slice) for every session.
C10_PrefixStaysInRange ==
    /\ IsWire(self)
        => /\ IsWire(other)
           /\ self.prefix_len = other.prefix_len
           /\ self.prefix_len <= Len(self.key_expr)
           /\ SubSeq(self.key_expr, 1, self.prefix_len)
                = SubSeq(other.key_expr, 1, self.prefix_len)
           /\ \A session \in SessionIds :
                /\ to_wire(self, session) # SlicePanic
                /\ is_optimized(self, session) \in BOOLEAN
    /\ last.op = "to_wire" => last.res # SlicePanic
    /\ last.op \in {"is_optimized", "is_fully_optimized"} => last.res \in BOOLEAN

\* A value grown from an annotated original has been encoded for the
\* session of its annotation.
C10_Witness ==
    /\ last.op = "to_wire"
    /\ IsWire(self)
    /\ last.self = self
    /\ last.session = self.session_id
    /\ self.prefix_len > 0
    /\ Len(self.key_expr) > Len(other.key_expr)

====
